---- MODULE Spec2Model ----
(***************************************************************************)
(* QuickQuake (src/main.py): a poller that fetches the USGS earthquake     *)
(* feed every CHECK_INTERVAL seconds, picks the most recent event near     *)
(* Thailand with magnitude >= MIN_MAGNITUDE and broadcasts it on LINE,     *)
(* retrying the broadcast with exponential backoff on HTTP 429.            *)
(*                                                                         *)
(* Units: magnitudes are tenths (25 = 2.5), coordinates whole degrees,     *)
(* times epoch milliseconds, sleeps seconds.  An action is one stretch of  *)
(* synchronous code between two awaits.                                    *)
(***************************************************************************)
EXTENDS Integers, Sequences, FiniteSets, TLC

\* ---------------------------------------------------------------- bounds
MaxTime == 2        \* event timestamps are 1000, ..., MaxTime * 1000
MaxFeedLen == 2     \* a fetched feed holds at most this many records

\* ------------------------------------------------------------- constants
LAT_MIN == 5
LAT_MAX == 22
LON_MIN == 92
LON_MAX == 108
MIN_MAGNITUDE == 25
CHECK_INTERVAL == 60
MESSAGE_DELAY == 5
max_retries == 5
retry_delay == 5

VARIABLES
  pc,                \* position of the single task
  state,             \* which part of main / __main__ the task is in
  feed,              \* the feed document as the server holds it
  response,          \* what the HTTP GET of the last fetch did
  data,              \* what fetch_earthquake_data() returned to the caller
  latest_quake_time, \* the global of line 35
  quake,             \* the record the running cycle selected
  msg,               \* message_text of the current send_line_notification
  user_id,           \* user_id of the current send_line_notification
  attempt,           \* loop variable of line 60
  outcomes,          \* what the channel answered, per call of this send
  ret,               \* return value of the last send_line_notification
  sleeps,            \* asyncio.sleep calls of the cycle or send under way
  initLatest,        \* latest_quake_time as Starting left it
  startupRet,        \* return value of the startup announcement send
  dispatched,        \* alert the cycle under way handed to send
  lastAlert,         \* alert the cycle before sent with success, while the
                     \* feed has not changed since that cycle fetched it
  sigint             \* a SIGINT that arrived during a blocking call and has
                     \* cancelled the task, which has not reached an await yet

vars == <<pc, state, feed, response, data, latest_quake_time, quake, msg,
          user_id, attempt, outcomes, ret, sleeps, initLatest, startupRet,
          dispatched, lastAlert, sigint>>

\* ------------------------------------------------------------ feed data
Times == {1000 * k : k \in 1..MaxTime}

Quake(ht, t, hg, la, lo, hm, m) ==
  [hasTime |-> ht, time |-> t, hasGeom |-> hg, lat |-> la, lon |-> lo,
   hasMag |-> hm, mag |-> m]

NoQuake == Quake(FALSE, 0, FALSE, 0, 0, FALSE, 0)

\* records of the feed: near Thailand with magnitude 5.2 at every time,
\* near Thailand with magnitude 2.0 and with null magnitude, far away with
\* magnitude 5.2, and two malformed ones (no "time" key, no "geometry"
\* coordinates)
Records ==
  {Quake(TRUE, t, TRUE, 13, 100, TRUE, 52) : t \in Times} \cup
  {Quake(TRUE, MaxTime * 1000, TRUE, 13, 100, TRUE, 20),
   Quake(TRUE, MaxTime * 1000, TRUE, 13, 100, FALSE, 0),
   Quake(TRUE, MaxTime * 1000, TRUE, 30, 100, TRUE, 52),
   Quake(FALSE, 0, TRUE, 13, 100, TRUE, 52),
   Quake(TRUE, 1000, FALSE, 0, 0, TRUE, 52)}

Feeds == UNION {[1..n -> Records] : n \in 0..MaxFeedLen}

RemoveAt(f, i) == SubSeq(f, 1, i - 1) \o SubSeq(f, i + 1, Len(f))

\* what the HTTP GET can do while the server holds feed f: time out, answer
\* non-2xx, answer a body that is not JSON, answer JSON without "features",
\* answer the feed
Responses(f) ==
  {[kind |-> k, features |-> <<>>] :
      k \in {"timeout", "non2xx", "malformed", "nofeatures"}} \cup
  {[kind |-> "json", features |-> f]}

\* fetch_earthquake_data returned None
None == [kind |-> "none", features |-> <<>>]

\* a body that is not JSON escaping the except clause of line 44
fetch_earthquake_data_raising(resp) ==
  IF resp.kind \in {"timeout", "non2xx"}
  THEN [raised |-> FALSE, value |-> None]
  ELSE IF resp.kind = "malformed"
  THEN [raised |-> TRUE, value |-> None]
  ELSE [raised |-> FALSE, value |-> resp]

\* lines 38-46: every requests.RequestException (timeout, HTTP error status
\* from raise_for_status, JSONDecodeError from response.json()) is logged
\* and None returned
fetch_earthquake_data(resp) ==
  IF resp.kind \in {"timeout", "non2xx", "malformed"}
  THEN [raised |-> FALSE, value |-> None]
  ELSE [raised |-> FALSE, value |-> resp]

\* line 95 / 153: data and "features" in data
Usable(d) == d.kind = "json"

\* the box without its border
is_near_thailand_strict(lat, lon) ==
  LAT_MIN < lat /\ lat < LAT_MAX /\ LON_MIN < lon /\ lon < LON_MAX

\* line 50
is_near_thailand(lat, lon) ==
  LAT_MIN <= lat /\ lat <= LAT_MAX /\ LON_MIN <= lon /\ lon <= LON_MAX

\* the sort without reverse=True
InsertAscending(t, e) ==
  LET k == Cardinality({i \in 1..Len(t) : t[i].time <= e.time})
  IN  SubSeq(t, 1, k) \o <<e>> \o SubSeq(t, k + 1, Len(t))

\* a descending sort that turns the feed order of equal times round, as
\* sorted(..., key=time)[::-1] would
InsertTiesReversed(t, e) ==
  LET k == Cardinality({i \in 1..Len(t) : t[i].time > e.time})
  IN  SubSeq(t, 1, k) \o <<e>> \o SubSeq(t, k + 1, Len(t))

\* sorted(..., key=time, reverse=True) is stable: among equal times the
\* feed order is kept.  Insert e into a list already sorted that way.
Insert(t, e) ==
  LET k == Cardinality({i \in 1..Len(t) : t[i].time >= e.time})
  IN  SubSeq(t, 1, k) \o <<e>> \o SubSeq(t, k + 1, Len(t))

RECURSIVE SortDesc(_)
SortDesc(s) ==
  IF s = <<>> THEN <<>>
  ELSE Insert(SortDesc(SubSeq(s, 1, Len(s) - 1)), s[Len(s)])

\* the key function x["properties"]["time"] raises KeyError on a record
\* without time
SortRaises(s) == \E i \in 1..Len(s) : ~s[i].hasTime

\* line 112: not magnitude or magnitude < MIN_MAGNITUDE
MagTooSmall(q) == ~q.hasMag \/ q.mag = 0 \/ q.mag < MIN_MAGNITUDE

\* the loop of lines 106-143 up to the record it stops at
RECURSIVE ScanRunning(_, _)
ScanRunning(s, i) ==
  IF i > Len(s) THEN [kind |-> "none", quake |-> NoQuake]
  ELSE IF ~s[i].hasGeom THEN [kind |-> "raise", quake |-> NoQuake]
  ELSE IF MagTooSmall(s[i]) THEN ScanRunning(s, i + 1)
  ELSE IF ~is_near_thailand(s[i].lat, s[i].lon) THEN ScanRunning(s, i + 1)
  ELSE [kind |-> "found", quake |-> s[i]]

\* the startup scan applying the magnitude test of the running scan
ScanStartingWithMag(s, i) == ScanRunning(s, i)

\* the loop of lines 159-164
RECURSIVE ScanStarting(_, _)
ScanStarting(s, i) ==
  IF i > Len(s) THEN [kind |-> "none", quake |-> NoQuake]
  ELSE IF ~s[i].hasGeom THEN [kind |-> "raise", quake |-> NoQuake]
  ELSE IF is_near_thailand(s[i].lat, s[i].lon)
       THEN [kind |-> "found", quake |-> s[i]]
  ELSE ScanStarting(s, i + 1)

\* ------------------------------------------------------------- messages
Text(k, sev, q, secs) ==
  [kind |-> k, severity |-> sev, mag |-> q.mag, lat |-> q.lat,
   lon |-> q.lon, localSeconds |-> secs]

NoMsg == Text("", "", NoQuake, 0)
StartupMsg == Text("startup", "", NoQuake, 0)
LoopErrorMsg == Text("loop_error", "", NoQuake, 0)
ShutdownMsg == Text("shutdown", "", NoQuake, 0)
UnexpectedMsg == Text("unexpected", "", NoQuake, 0)
\* a text of white space only
WhitespaceMsg == Text(" ", "", NoQuake, 0)

Severity(m) == IF m >= 60 THEN "severe" ELSE IF m >= 40 THEN "moderate" ELSE "light"

\* lines 119-137; time is shown to the second in Asia/Bangkok (UTC+7);
\* place and depth are copied into the text and are not modelled
Alert(q) == Text("alert", Severity(q.mag), q, (q.time \div 1000) + 7 * 3600)

\* line 54: not message_text, true of "" (and None) and of no other string
Blank(m) == m.kind = ""

\* a backoff that grows linearly instead of doubling
WaitTimeLinear(a) == retry_delay * (a + 1)

\* --------------------------------------------- send_line_notification
\* line 80: wait_time = retry_delay * (2 ** attempt)
WaitTime(a) == retry_delay * 2^a

\* an off-by-one in the retry bound
CanRetryOneMore(a) == a < max_retries

\* line 79: attempt < max_retries - 1
CanRetry(a) == a < max_retries - 1

\* every channel error taken for a rate limit
IsRateLimitAny(o) == o # "ok"

\* line 78: hasattr(e, 'status_code') and e.status_code == 429
IsRateLimit(o) == o = "429"

\* lines 77-88: what the except block does with a failed channel call
OnException(o, a) ==
  IF IsRateLimit(o)
  THEN IF CanRetry(a) THEN "sleep" ELSE "return_false"
  ELSE "return_false"

\* the result of the startup announcement ignored
AfterStartupIgnored(r) == "Running"

\* lines 173-178: the caller of the startup announcement
AfterStartup(r) == IF r = "True" THEN "Running" ELSE "StartupFailed"

\* a failed alert treated like a failed startup announcement
AfterAlertGiveUp(r) == IF r = "True" THEN "msg_delay" ELSE "done"

\* the dispatcher invoked again in the same cycle after a failed alert
AfterAlertSendAgain(r) == IF r = "True" THEN "msg_delay" ELSE "send_enter"

\* a failed alert followed by the next cycle at once, as a continue in the
\* while loop would do
AfterAlertNoInterval(r) == IF r = "True" THEN "msg_delay" ELSE "check"

\* lines 139-143, 181: where check_earthquakes goes after the alert send
AfterAlert(r) == IF r = "True" THEN "msg_delay" ELSE "interval"

\* latest_quake_time updated whether or not the send succeeded
AlertLatestAlways(r, old, q) == q.time

\* lines 139-140: latest_quake_time after the alert send
AlertLatest(r, old, q) == IF r = "True" THEN q.time ELSE old

Slept(why, secs) == [why |-> why, secs |-> secs]

\* a call of send_line_notification(m): the task is at line 54
CallSend(m) ==
  /\ msg' = m
  /\ user_id' = "None"
  /\ attempt' = 0
  /\ outcomes' = <<>>
  /\ ret' = "none"
  /\ sleeps' = <<>>
  /\ pc' = "send_enter"

\* the task has left main or the loop for good: nothing reads the feed, the
\* fetched data or the cycles' history any more
Forget ==
  /\ feed' = <<>>
  /\ data' = None
  /\ quake' = NoQuake
  /\ dispatched' = NoMsg
  /\ lastAlert' = NoMsg

\* send_line_notification returns r; the caller runs on to its next await
Return(r) ==
  /\ ret' = r
  /\ IF state = "Starting"
     THEN /\ startupRet' = r
          /\ state' = AfterStartup(r)
          /\ IF AfterStartup(r) = "Running"
             THEN /\ pc' = "loop"
                  /\ UNCHANGED <<feed, response, data, quake, dispatched,
                                 lastAlert>>
             ELSE /\ pc' = "done"
                  /\ response' = "none"
                  /\ Forget
          /\ UNCHANGED latest_quake_time
     ELSE IF state = "Running"
     THEN /\ latest_quake_time' = AlertLatest(r, latest_quake_time, quake)
          /\ pc' = AfterAlert(r)
          /\ UNCHANGED <<state, startupRet, feed, response, data, quake,
                         dispatched, lastAlert>>
     ELSE /\ pc' = "done"
          /\ UNCHANGED <<state, startupRet, latest_quake_time, feed, response,
                         data, quake, dispatched, lastAlert>>
  /\ sigint' = IF pc' = "done" THEN "none" ELSE sigint

\* what a step inside send_line_notification that does not return leaves alone
StaysInSend ==
  UNCHANGED <<state, startupRet, latest_quake_time, ret, feed, response,
              data, quake, dispatched, lastAlert, sigint>>

\* lines 54-58
SendEnter ==
  /\ pc = "send_enter"
  /\ IF Blank(msg)
     THEN Return("False")
     ELSE /\ pc' = "send_try"
          /\ StaysInSend
  /\ UNCHANGED <<msg, user_id, attempt, outcomes, sleeps, initLatest>>

\* lines 60-88 for one value of attempt: the channel is called and answers
\* success, 429 or another error (user_id given: nothing is called)
SendAttempt ==
  /\ pc = "send_try"
  /\ IF user_id = "None"
     THEN \E o \in {"ok", "429", "error"} :
            /\ outcomes' = Append(outcomes, o)
            /\ IF o = "ok" THEN Return("True")
               ELSE IF OnException(o, attempt) = "sleep"
               THEN /\ pc' = "send_backoff"
                    /\ StaysInSend
               ELSE Return("False")
     ELSE /\ Return("True")
          /\ UNCHANGED outcomes
  /\ UNCHANGED <<msg, user_id, attempt, sleeps, initLatest>>

\* line 82, then the next iteration of line 60
SendBackoff ==
  /\ pc = "send_backoff"
  /\ sigint = "none"
  /\ sleeps' = Append(sleeps, Slept("backoff", WaitTime(attempt)))
  /\ attempt' = attempt + 1
  /\ pc' = "send_try"
  /\ StaysInSend
  /\ UNCHANGED <<msg, user_id, outcomes, initLatest>>

\* ------------------------------------------------------------------ main
\* an exception leaves main() and reaches line 193
RaiseFromStarting ==
  /\ state' = "Unexpected"
  /\ sigint' = "none"
  /\ Forget
  /\ CallSend(UnexpectedMsg)

\* the loop ended by the exception without the announcement of line 184
RaiseFromLoopSilent ==
  /\ state' = "LoopFailed"
  /\ sigint' = "none"
  /\ Forget
  /\ pc' = "done"
  /\ UNCHANGED <<msg, user_id, attempt, outcomes, ret, sleeps>>

\* an exception in the loop body reaches line 182
RaiseFromLoop ==
  /\ state' = "LoopFailed"
  /\ UNCHANGED sigint
  /\ Forget
  /\ CallSend(LoopErrorMsg)

\* lines 149-173: first fetch, latest_quake_time from the newest record
\* near Thailand, startup announcement
MainStart ==
  /\ pc = "main_start"
  /\ \E resp \in Responses(feed) :
       LET f == fetch_earthquake_data(resp)
           d == f.value
           found == ScanStarting(SortDesc(d.features), 1)
           raises == f.raised \/
                     (Usable(d) /\ (SortRaises(d.features) \/ found.kind = "raise"))
           t == IF Usable(d) /\ ~raises /\ found.kind = "found"
                THEN found.quake.time ELSE latest_quake_time
       IN  /\ response' = resp.kind
           /\ IF raises
              THEN /\ RaiseFromStarting
                   /\ UNCHANGED <<latest_quake_time, initLatest>>
              ELSE
                /\ data' = d
                /\ latest_quake_time' = t
                /\ initLatest' = t
                /\ CallSend(StartupMsg)
                /\ UNCHANGED <<state, feed, quake, dispatched, lastAlert,
                               sigint>>
  /\ UNCHANGED startupRet

\* nothing of the call that just ended is read again
ForgetCall ==
  /\ response' = "none"
  /\ data' = None
  /\ quake' = NoQuake
  /\ msg' = NoMsg
  /\ attempt' = 0
  /\ outcomes' = <<>>
  /\ ret' = "none"
  /\ dispatched' = NoMsg

\* lines 178-179: the loop is entered
EnterLoop ==
  /\ pc = "loop"
  /\ pc' = "check"
  /\ sleeps' = <<>>
  /\ ForgetCall
  /\ UNCHANGED <<state, feed, latest_quake_time, user_id, initLatest,
                 startupRet, lastAlert, sigint>>

\* lines 94-139: one call of check_earthquakes up to its first await
CheckEarthquakes ==
  /\ pc = "check"
  /\ \E resp \in Responses(feed) :
       LET f == fetch_earthquake_data(resp)
           d == f.value
           found == ScanRunning(SortDesc(d.features), 1)
           raises == f.raised \/
                     (Usable(d) /\ (SortRaises(d.features) \/ found.kind = "raise"))
       IN  /\ response' = resp.kind
           /\ IF raises
              THEN RaiseFromLoop
              ELSE
                /\ data' = d
                /\ UNCHANGED <<state, feed, lastAlert, sigint>>
                /\ IF Usable(d) /\ found.kind = "found"
                   THEN /\ quake' = found.quake
                        /\ dispatched' = Alert(found.quake)
                        /\ CallSend(Alert(found.quake))
                   ELSE /\ quake' = NoQuake
                        /\ dispatched' = NoMsg
                        /\ pc' = "interval"
                        /\ sleeps' = <<>>
                        /\ UNCHANGED <<msg, user_id, attempt, outcomes, ret>>
  /\ UNCHANGED <<latest_quake_time, initLatest, startupRet>>

\* line 142, then break and return to line 181
MessageDelay ==
  /\ pc = "msg_delay"
  /\ sigint = "none"
  /\ sleeps' = Append(sleeps, Slept("message_delay", MESSAGE_DELAY))
  /\ pc' = "interval"
  /\ UNCHANGED <<state, feed, response, data, latest_quake_time, quake, msg,
                 user_id, attempt, outcomes, ret, startupRet, initLatest,
                 dispatched, lastAlert, sigint>>

\* line 181, then lines 179-180: the cycle is complete
IntervalSleep ==
  /\ pc = "interval"
  /\ sigint = "none"
  /\ sleeps' = <<Slept("check_interval", CHECK_INTERVAL)>>
  /\ pc' = "check"
  /\ lastAlert' = IF ret = "True" THEN dispatched ELSE NoMsg
  /\ ForgetCall
  /\ UNCHANGED <<state, feed, latest_quake_time, user_id, startupRet,
                 initLatest, sigint>>

\* the positions at which the task is suspended in asyncio.sleep (lines 82,
\* 142, 181); everywhere else it runs synchronous code, the blocking
\* requests.get and broadcast calls included
Awaiting == pc \in {"send_backoff", "msg_delay", "interval"}

\* KeyboardInterrupt leaves asyncio.run: from asyncio.run(main()) line 190
\* is reached and the shutdown announcement is sent; from one of the
\* handlers' own asyncio.run it ends the process
Unwind ==
  /\ sigint' = "none"
  /\ IF state \in {"Starting", "Running", "LoopFailed"}
     THEN /\ state' = "Interrupted"
          /\ response' = "none"
          /\ Forget
          /\ CallSend(ShutdownMsg)
     ELSE /\ pc' = "done"
          /\ UNCHANGED <<state, feed, response, data, quake, msg, user_id, attempt,
                         outcomes, ret, sleeps, dispatched, lastAlert>>
  /\ UNCHANGED <<latest_quake_time, startupRet, initLatest>>

\* Ctrl-C that takes effect where the task is: during a sleep the task is
\* cancelled at once; during synchronous code an interpreter whose
\* asyncio.run installs no SIGINT handler (before 3.11) raises
\* KeyboardInterrupt right there, and so does a second Ctrl-C on a later one
Interrupt ==
  /\ pc # "done"
  /\ ~(sigint # "none" /\ Awaiting)
  /\ Unwind

\* Ctrl-C during the blocking requests.get (lines 41, 94, 152) or broadcast
\* (line 68) where asyncio.run handles SIGINT (3.11 on): the handler cancels
\* the main task and returns, the blocking call and the synchronous code
\* after it run on, and the cancellation is delivered at the next await
SigintDuringBlocking ==
  /\ sigint = "none"
  /\ pc \in {"main_start", "check", "send_try"}
  /\ sigint' = IF pc = "send_try" THEN "in_send" ELSE "in_fetch"
  /\ UNCHANGED <<pc, state, feed, response, data, latest_quake_time, quake,
                 msg, user_id, attempt, outcomes, ret, sleeps, initLatest,
                 startupRet, dispatched, lastAlert>>

\* the cancelled task reaches an asyncio.sleep: CancelledError is raised
\* there, passes the except Exception of line 182 and asyncio.run raises
\* KeyboardInterrupt
Cancelled ==
  /\ sigint # "none"
  /\ Awaiting
  /\ Unwind

\* ----------------------------------------------------------- the server
\* the feed document changes, one record at a time: a record is listed or a
\* listed record is withdrawn.  The task sees the feed only when it fetches,
\* so changes are taken just before a fetch.
FeedChange ==
  /\ pc \in {"main_start", "check"}
  /\ \/ \E r \in Records :
          /\ Len(feed) < MaxFeedLen
          /\ feed' = <<r>> \o feed
     \/ \E i \in 1..Len(feed) : feed' = RemoveAt(feed, i)
  /\ lastAlert' = NoMsg
  /\ UNCHANGED <<pc, state, response, data, latest_quake_time, quake, msg,
                 user_id, attempt, outcomes, ret, sleeps, initLatest,
                 startupRet, dispatched, sigint>>

Init ==
  /\ pc = "main_start"
  /\ state = "Starting"
  /\ feed = <<>>
  /\ response = "none"
  /\ data = None
  /\ latest_quake_time = 0
  /\ quake = NoQuake
  /\ msg = NoMsg
  /\ user_id = "None"
  /\ attempt = 0
  /\ outcomes = <<>>
  /\ ret = "none"
  /\ sleeps = <<>>
  /\ initLatest = 0
  /\ startupRet = "none"
  /\ dispatched = NoMsg
  /\ lastAlert = NoMsg
  /\ sigint = "none"

Step ==
  \/ MainStart
  \/ SendEnter
  \/ SendAttempt
  \/ SendBackoff
  \/ EnterLoop
  \/ CheckEarthquakes
  \/ MessageDelay
  \/ IntervalSleep
  \/ Cancelled

Next ==
  \/ Step
  \/ Interrupt
  \/ SigintDuringBlocking
  \/ FeedChange

Spec == Init /\ [][Next]_vars

\* the event loop runs the task whenever it can run
LiveSpec == Init /\ [][Next]_vars /\ WF_vars(Step)

\* ------------------------------------- one cycle on a feed of events
\* the loop is about to run check_earthquakes() while the server holds f
CycleStart(f) ==
  /\ pc = "check"
  /\ state = "Running"
  /\ feed = f
  /\ response = "none"
  /\ data = None
  /\ latest_quake_time = 0
  /\ quake = NoQuake
  /\ msg = NoMsg
  /\ user_id = "None"
  /\ attempt = 0
  /\ outcomes = <<>>
  /\ ret = "none"
  /\ sleeps = <<>>
  /\ initLatest = 0
  /\ startupRet = "True"
  /\ dispatched = NoMsg
  /\ lastAlert = NoMsg
  /\ sigint = "none"

\* --------------------------- send_line_notification called on its own
\* message texts: empty, white space only, and the program's fixed texts
DirectTexts ==
  {NoMsg, WhitespaceMsg, StartupMsg, LoopErrorMsg, ShutdownMsg, UnexpectedMsg}

\* user_id arguments: the default None and two recipients
UserIds == {"None", "U1", "U2"}

\* send_line_notification(m, u) has just been called the way lines 192 and
\* 195 call it, as the only coroutine of an asyncio.run
SendInit ==
  \E m \in DirectTexts, u \in UserIds :
    /\ pc = "send_enter"
    /\ state = "Direct"
    /\ feed = <<>>
    /\ response = "none"
    /\ data = None
    /\ latest_quake_time = 0
    /\ quake = NoQuake
    /\ msg = m
    /\ user_id = u
    /\ attempt = 0
    /\ outcomes = <<>>
    /\ ret = "none"
    /\ sleeps = <<>>
    /\ initLatest = 0
    /\ startupRet = "none"
    /\ dispatched = NoMsg
    /\ lastAlert = NoMsg
    /\ sigint = "none"

SendNext ==
  \/ SendEnter
  \/ SendAttempt
  \/ SendBackoff

SendSpec == SendInit /\ [][SendNext]_vars

\* events for the ranking: two different ones near Thailand with a
\* sufficient magnitude at every time, and at the latest time one that is
\* too weak and one that is far away
RankRecords ==
  {Quake(TRUE, t, TRUE, 13, 100, TRUE, 52) : t \in Times} \cup
  {Quake(TRUE, t, TRUE, 14, 101, TRUE, 45) : t \in Times} \cup
  {Quake(TRUE, MaxTime * 1000, TRUE, 13, 100, TRUE, 20),
   Quake(TRUE, MaxTime * 1000, TRUE, 30, 100, TRUE, 52)}

RankFeeds == UNION {[1..n -> RankRecords] : n \in 0..MaxFeedLen}

RankInit == \E f \in RankFeeds : CycleStart(f)

\* check_earthquakes() applied once to every feed of RankFeeds
RankSpec == RankInit /\ [][CheckEarthquakes]_vars

\* events on, just inside and just outside every border of the box, with
\* magnitude null, 0, 2.4, 2.5 and 5.2
BoundaryRecords ==
  {Quake(TRUE, 1000, TRUE, la, lo, m # -1, IF m = -1 THEN 0 ELSE m) :
     la \in {LAT_MIN - 1, LAT_MIN, 13, LAT_MAX, LAT_MAX + 1},
     lo \in {LON_MIN - 1, LON_MIN, 100, LON_MAX, LON_MAX + 1},
     m \in {-1, 0, MIN_MAGNITUDE - 1, MIN_MAGNITUDE, 52}}

FilterInit == \E q \in BoundaryRecords : CycleStart(<<q>>)

\* check_earthquakes() applied once to every feed of one boundary event
FilterSpec == FilterInit /\ [][CheckEarthquakes]_vars

TypeOK ==
  /\ pc \in {"main_start", "send_enter", "send_try", "send_backoff", "loop",
             "check", "msg_delay", "interval", "done"}
  /\ state \in {"Starting", "Running", "StartupFailed", "LoopFailed",
                "Interrupted", "Unexpected", "Direct"}
  /\ feed \in Feeds \cup RankFeeds \cup {<<q>> : q \in BoundaryRecords}
  /\ latest_quake_time \in {0} \cup Times
  /\ attempt \in 0..(max_retries - 1)
  /\ ret \in {"none", "True", "False"}
  /\ Len(outcomes) <= max_retries
  /\ sigint \in {"none", "in_fetch", "in_send"}

\* ============================================================ properties
InSend == pc \in {"send_enter", "send_try", "send_backoff"}

Backoffs == SelectSeq(sleeps, LAMBDA x : x.why = "backoff")

All429(n) == \A i \in 1..n : outcomes[i] = "429"

RateLimitedThenOk(n) ==
  /\ Len(outcomes) = n + 1
  /\ All429(n)
  /\ outcomes[n + 1] = "ok"

\* C1: when the channel answers 429 on the first n calls of a send (n in
\* 0..4) and succeeds on call n+1, the send has returned True after exactly
\* those n+1 calls, and the sleeps it took are 5 * 2^i seconds after call i
\* (i from 0): 5, 10, 20, 40 for n = 4; nothing is slept after the success.
C1_BackoffThenSuccess ==
  \A n \in 0..4 :
    RateLimitedThenOk(n) =>
      /\ ret = "True"
      /\ ~InSend
      /\ Len(Backoffs) = n
      /\ SubSeq(sleeps, 1, n) = [i \in 1..n |-> Slept("backoff", 5 * 2^(i - 1))]

C1_Witness ==
  /\ RateLimitedThenOk(4)
  /\ ret = "True"
  /\ sleeps = <<Slept("backoff", 5), Slept("backoff", 10),
                Slept("backoff", 20), Slept("backoff", 40)>>

\* C2: a send never makes more than 5 channel calls; when all 5 are answered
\* 429 the send has returned False after the 5th, having slept 4 times (not
\* after the 5th call).
C2_RateLimitExhausted ==
  /\ Len(outcomes) <= 5
  /\ (Len(outcomes) = 5 /\ All429(5)) =>
        /\ ret = "False"
        /\ ~InSend
        /\ Len(Backoffs) = 4

C2_Witness ==
  /\ Len(outcomes) = 5
  /\ All429(5)
  /\ ret = "False"
  /\ Len(Backoffs) = 4

\* C3: an error other than 429, on whichever attempt, ends the send with
\* False at once: it is the last channel call of the send and no backoff
\* sleep follows it.
C3_FatalNoRetry ==
  \A i \in 1..Len(outcomes) :
    outcomes[i] = "error" =>
      /\ i = Len(outcomes)
      /\ ret = "False"
      /\ ~InSend
      /\ Len(Backoffs) = i - 1

C3_Witness ==
  /\ outcomes = <<"429", "429", "error">>
  /\ ret = "False"
  /\ Len(Backoffs) = 2

\* a record that is a qualifying event: magnitude present and >= 2.5,
\* 5 <= latitude <= 22, 92 <= longitude <= 108
Qualifying(q) ==
  /\ q.hasTime /\ q.hasGeom /\ q.hasMag
  /\ q.mag >= 25
  /\ 5 <= q.lat /\ q.lat <= 22
  /\ 92 <= q.lon /\ q.lon <= 108

QualifyingIn(f) == {i \in 1..Len(f) : Qualifying(f[i])}

\* the task is inside a cycle of the loop, past its fetch
InCycle ==
  /\ state = "Running"
  /\ pc \in {"send_enter", "send_try", "send_backoff", "msg_delay", "interval"}

\* C4: a Running cycle whose feed holds a qualifying event dispatches the
\* alert of a most recent qualifying event of that feed, whatever
\* latest_quake_time is; when the cycle before fetched the same, unchanged
\* feed and its send succeeded, both cycles dispatch the same message.
C4_AlwaysReannounce ==
  (InCycle /\ Usable(data) /\ QualifyingIn(data.features) # {}) =>
     /\ \E i \in QualifyingIn(data.features) :
          /\ quake = data.features[i]
          /\ \A j \in QualifyingIn(data.features) :
               data.features[j].time <= quake.time
     /\ dispatched.kind = "alert"
     /\ dispatched.mag = quake.mag
     /\ dispatched.lat = quake.lat
     /\ dispatched.lon = quake.lon
     /\ dispatched.localSeconds = (quake.time \div 1000) + 25200
     /\ InSend => msg = dispatched
     /\ lastAlert # NoMsg => dispatched = lastAlert

\* two cycles in a row sent the same alert, the second one although
\* latest_quake_time already was the event's time
C4_Witness ==
  /\ InCycle
  /\ pc = "interval"
  /\ ret = "True"
  /\ dispatched.kind = "alert"
  /\ lastAlert = dispatched
  /\ latest_quake_time = quake.time

\* C5: an event that was in the feed at startup (time <= the value Starting
\* gave latest_quake_time) is never dispatched by a Running cycle.
C5_NoStartupEventDispatched ==
  (state = "Running" /\ dispatched # NoMsg) => quake.time > initLatest

\* C6: latest_quake_time never decreases.
C6_LatestMonotonic == [][latest_quake_time' >= latest_quake_time]_vars

MessageDelays(sl) == Len(SelectSeq(sl, LAMBDA x : x.why = "message_delay"))

\* C7: in Running, latest_quake_time changes only in the step in which the
\* alert send returns True, and becomes the time of the dispatched event;
\* that step, and no other, leads to the MESSAGE_DELAY (5 s) sleep; steps of
\* cycles whose fetch failed, that found no event or whose send returned
\* False leave latest_quake_time alone and never sleep MESSAGE_DELAY.
C7_UpdateOnlyOnSuccess ==
  [][state = "Running" =>
       /\ IF InSend /\ ret' = "True"
          THEN /\ latest_quake_time' = quake.time
               /\ pc' = "msg_delay"
          ELSE /\ latest_quake_time' = latest_quake_time
               /\ pc' = "msg_delay" => pc = "msg_delay"
       /\ (pc = "msg_delay" /\ state' = "Running") =>
            /\ ret = "True"
            /\ sleeps' = Append(sleeps, Slept("message_delay", 5))
            /\ pc' = "interval"
       /\ MessageDelays(sleeps') > MessageDelays(sleeps) => pc = "msg_delay"
    ]_vars

\* a cycle updated latest_quake_time after a successful send and slept 5 s
C7_Witness ==
  /\ state = "Running"
  /\ pc = "interval"
  /\ ret = "True"
  /\ latest_quake_time = quake.time
  /\ latest_quake_time # initLatest
  /\ sleeps # <<>>
  /\ sleeps[Len(sleeps)] = Slept("message_delay", 5)

\* C8: when the startup announcement send returns False the process is over
\* without a single cycle of the loop (no fetch of a cycle, no alert), and
\* the loop is only ever entered, and an alert only ever dispatched, after
\* the startup announcement send returned True.
C8_StartupGate ==
  /\ startupRet = "False" =>
        /\ pc = "done"
        /\ state = "StartupFailed"
  /\ (state \in {"Running", "LoopFailed"} \/ dispatched # NoMsg) =>
        startupRet = "True"
  /\ state = "StartupFailed" => startupRet = "False"

C8_Witness ==
  /\ startupRet = "False"
  /\ pc = "done"
  /\ outcomes = <<"429", "error">>

\* C9: in Running, a fetch that fails (timeout, HTTP error status, body that
\* is not JSON) does not end the loop: the cycle dispatches nothing, leaves
\* latest_quake_time alone and goes to the CHECK_INTERVAL sleep, after which
\* the next cycle is started.
C9_FetchFailureContained ==
  [][/\ (pc = "check" /\ response' \in {"timeout", "non2xx", "malformed"}) =>
          /\ state' = "Running"
          /\ pc' = "interval"
          /\ data' = None
          /\ dispatched' = NoMsg
          /\ msg' = NoMsg
          /\ sleeps' = <<>>
          /\ latest_quake_time' = latest_quake_time
     /\ (state = "Running" /\ pc = "interval" /\ state' # "Interrupted") =>
          /\ state' = "Running"
          /\ pc' = "check"
          /\ sleeps' = <<Slept("check_interval", 60)>>
    ]_vars

\* a cycle whose fetch failed is at its CHECK_INTERVAL sleep
C9_Witness ==
  /\ state = "Running"
  /\ pc = "interval"
  /\ response = "malformed"
  /\ data = None
  /\ dispatched = NoMsg

\* C10: in Running, an alert send that returns False (429 on every attempt,
\* or another channel error) leaves the loop running: the cycle goes on to
\* the CHECK_INTERVAL sleep, and unless the process is interrupted the next
\* cycle is reached and fetches the feed.
C10_DispatchFailureContained ==
  /\ [][(state = "Running" /\ InSend /\ ret' = "False") =>
          /\ state' = "Running"
          /\ pc' = "interval"]_vars
  /\ ((state = "Running" /\ pc = "interval" /\ ret = "False")
        ~> ((state = "Running" /\ pc = "check") \/ state = "Interrupted"))
  /\ ((state = "Running" /\ pc = "check")
        ~> (response # "none" \/ state = "Interrupted"))

\* after 429 on all five attempts the loop is at its interval sleep
C10_Witness ==
  /\ state = "Running"
  /\ pc = "interval"
  /\ ret = "False"
  /\ Len(outcomes) = 5
  /\ All429(5)

\* C11: a fetched feed that holds a record without time or without geometry
\* is processed as if that record were not there: Starting goes on to the
\* startup announcement, a Running cycle stays in Running and still
\* dispatches an alert when the feed holds a qualifying event.
C11_MalformedDroppedSilently ==
  [][/\ (pc = "main_start" /\ response' = "json") =>
          /\ state' = "Starting"
          /\ msg' = StartupMsg
     /\ (pc = "check" /\ response' = "json") =>
          /\ state' = "Running"
          /\ QualifyingIn(feed) # {} => dispatched'.kind = "alert"
    ]_vars

\* a step that calls send_line_notification with message m
Invokes(m) == pc' = "send_enter" /\ msg' = m /\ pc # "send_enter"

\* C12: an exception in the body of the Running loop ends the loop: from
\* then on nothing is fetched and no alert is dispatched, the failure
\* announcement send is invoked in that step and never again, and the
\* process ends only when that send has returned (or Ctrl-C cut it short).
C12_LoopErrorAnnouncedOnce ==
  [][/\ (state' = "LoopFailed" /\ state # "LoopFailed") =>
          /\ state = "Running"
          /\ pc = "check"
          /\ Invokes(LoopErrorMsg)
          /\ outcomes' = <<>>
     /\ Invokes(LoopErrorMsg) => (state = "Running" /\ state' = "LoopFailed")
     /\ state = "LoopFailed" =>
          /\ state' \in {"LoopFailed", "Interrupted"}
          /\ pc' \notin {"main_start", "loop", "check", "msg_delay", "interval"}
          /\ response' \in {response, "none"}
          /\ dispatched' = NoMsg
          /\ state' = "LoopFailed" =>
               /\ msg' = LoopErrorMsg
               /\ pc' = "done" => (pc = "send_try" /\ ret' \in {"True", "False"})
          /\ pc = "done" => UNCHANGED vars
    ]_vars

\* the loop ran, sent an alert, later failed on a record, and the process
\* ended after the failure announcement was delivered
C12_Witness ==
  /\ state = "LoopFailed"
  /\ pc = "done"
  /\ msg = LoopErrorMsg
  /\ ret = "True"
  /\ outcomes = <<"429", "ok">>
  /\ latest_quake_time # initLatest

\* C13: once an interruption signal has arrived in the Running loop, during
\* a sleep, a fetch or a send, no further fetch is made and no alert is
\* handed to the channel any more; the system goes to Stopped, where the
\* shutdown announcement send is invoked and nothing else happens.
C13_InterruptStops ==
  [][/\ (state = "Running" /\ sigint # "none") =>
          /\ pc # "check" => response' \in {response, "none"}
          /\ sigint = "in_fetch" => Len(outcomes') <= Len(outcomes)
          /\ (sigint = "in_send" /\ pc # "send_try") =>
               Len(outcomes') <= Len(outcomes)
     /\ (state = "Running" /\ state' # "Running" /\ state' # "LoopFailed") =>
          /\ state' = "Interrupted"
          /\ msg' = ShutdownMsg
          /\ pc' = "send_enter"
     /\ state = "Interrupted" =>
          /\ state' = "Interrupted"
          /\ response' = "none"
          /\ dispatched' = NoMsg
          /\ msg' = ShutdownMsg
    ]_vars

\* a record that is an event: it has a time and coordinates
WellFormed(q) == q.hasTime /\ q.hasGeom

AllWellFormed(f) == \A i \in 1..Len(f) : WellFormed(f[i])

\* inside the bounding box, whatever the magnitude
InRegion(q) == 5 <= q.lat /\ q.lat <= 22 /\ 92 <= q.lon /\ q.lon <= 108

InRegionTimes(f) == {f[i].time : i \in {j \in 1..Len(f) : InRegion(f[j])}}

MaxInRegionTime(f) ==
  IF InRegionTimes(f) = {} THEN 0
  ELSE CHOOSE t \in InRegionTimes(f) : \A u \in InRegionTimes(f) : u <= t

\* C14: the startup step sets latest_quake_time to the largest time among
\* the fetched feed's events inside the bounding box, events with absent or
\* too small magnitude included, and leaves it 0 when there is none or when
\* the fetch gave no feed; in every one of these cases it goes on to send
\* the startup announcement.
C14_StartupInitialisation ==
  [][(pc = "main_start" /\ response' # "none" /\
        (response' = "json" => AllWellFormed(feed))) =>
       /\ latest_quake_time' =
            IF response' = "json" THEN MaxInRegionTime(feed) ELSE 0
       /\ state' = "Starting"
       /\ pc' = "send_enter"
       /\ msg' = StartupMsg
    ]_vars

\* Starting took the time of the newest event near Thailand although that
\* event has no magnitude and an older one in front of it in the feed has
C14_Witness ==
  /\ state = "Starting"
  /\ pc = "send_enter"
  /\ msg = StartupMsg
  /\ Len(data.features) = 2
  /\ data.features[1] = Quake(TRUE, 1000, TRUE, 13, 100, TRUE, 52)
  /\ data.features[2] = Quake(TRUE, 2000, TRUE, 13, 100, FALSE, 0)
  /\ latest_quake_time = 2000

\* C15: for every feed of events, the event a Running cycle selects is a
\* qualifying event of the feed with the largest time among the qualifying
\* ones, and of those with that time the first in feed order; the cycle
\* selects none exactly when the feed holds no qualifying event.
C15_RankerSelectsLatest ==
  (pc # "check" /\ response = "json") =>
     LET f == data.features
         Q == QualifyingIn(f)
     IN  /\ (dispatched = NoMsg) <=> (Q = {})
         /\ (quake = NoQuake) <=> (Q = {})
         /\ Q # {} =>
              \E i \in Q :
                /\ quake = f[i]
                /\ dispatched = Alert(f[i])
                /\ \A j \in Q :
                     /\ f[j].time <= f[i].time
                     /\ f[j].time = f[i].time => i <= j

\* two different qualifying events with the same, latest time: the one in
\* front in the feed is selected
C15_Witness ==
  /\ pc = "send_enter"
  /\ response = "json"
  /\ data.features = <<Quake(TRUE, 2000, TRUE, 14, 101, TRUE, 45),
                       Quake(TRUE, 2000, TRUE, 13, 100, TRUE, 52)>>
  /\ quake = Quake(TRUE, 2000, TRUE, 14, 101, TRUE, 45)

\* C16: an event gets an alert exactly when its magnitude is present and
\* at least 2.5, its latitude is from 5 to 22 and its longitude from 92 to
\* 108, borders included: never without a magnitude, never from outside the
\* box, and always from a border or corner of the box with magnitude 2.5.
C16_QualifyingBounds ==
  (pc # "check" /\ response = "json" /\ Len(data.features) = 1) =>
     LET q == data.features[1]
         alerted == pc = "send_enter" /\ quake = q /\ msg = Alert(q)
     IN  /\ alerted <=> (/\ q.hasMag /\ q.mag >= 25
                         /\ 5 <= q.lat /\ q.lat <= 22
                         /\ 92 <= q.lon /\ q.lon <= 108)
         /\ ~alerted => (pc = "interval" /\ msg = NoMsg)
         /\ ~q.hasMag => ~alerted
         /\ (q.lat < 5 \/ q.lat > 22 \/ q.lon < 92 \/ q.lon > 108) => ~alerted
         /\ (q.hasMag /\ q.mag = 25 /\ q.lat \in {5, 22} /\ q.lon \in 92..108) =>
              alerted
         /\ (q.hasMag /\ q.mag = 25 /\ q.lon \in {92, 108} /\ q.lat \in 5..22) =>
              alerted

\* the event on the corner (22, 92) of the box with magnitude exactly 2.5
\* is handed to the send
C16_Witness ==
  /\ pc = "send_enter"
  /\ data.features = <<Quake(TRUE, 1000, TRUE, 22, 92, TRUE, 25)>>
  /\ quake = Quake(TRUE, 1000, TRUE, 22, 92, TRUE, 25)
  /\ msg.kind = "alert"
  /\ msg.severity = "light"

\* the step in which a cycle's fetch is made
Fetches == pc = "check" /\ response' # "none"

\* C17: in Running a cycle's fetch is made only when no send is under way
\* and, unless it is the first cycle, the CHECK_INTERVAL (60 s) sleep has
\* just been slept in full; that sleep is started only when the cycle's work
\* is over: nothing was dispatched, or the send returned False after all its
\* attempts and backoffs, or it returned True and the MESSAGE_DELAY (5 s)
\* sleep after it was slept.
C17_CycleTiming ==
  [][state = "Running" =>
       /\ Fetches =>
            /\ ~InSend
            /\ msg = NoMsg /\ outcomes = <<>> /\ ret = "none"
            /\ dispatched = NoMsg
            /\ sleeps \in {<<>>, <<Slept("check_interval", 60)>>}
       /\ (pc' = "check" /\ pc # "check") =>
            \/ pc = "loop" /\ sleeps' = <<>>
            \/ pc = "interval" /\ sleeps' = <<Slept("check_interval", 60)>>
       /\ (pc' = "interval" /\ pc # "interval") =>
            \/ Fetches /\ dispatched' = NoMsg /\ msg' = NoMsg
            \/ pc = "send_try" /\ ret' = "False"
            \/ /\ pc = "msg_delay" /\ ret = "True"
               /\ sleeps' = Append(sleeps, Slept("message_delay", 5))
       /\ (pc \in {"send_enter", "send_try", "send_backoff", "msg_delay"}
           /\ state' = "Running") =>
            /\ ~Fetches
            /\ response' = response
            /\ dispatched' = dispatched
            /\ msg' = msg
            /\ pc' # "check"
    ]_vars

\* a cycle that sent its alert and slept the message delay is over; the
\* next cycle has slept the interval and is about to fetch
C17_Witness ==
  /\ state = "Running"
  /\ pc = "check"
  /\ sleeps = <<Slept("check_interval", 60)>>
  /\ lastAlert.kind = "alert"
  /\ latest_quake_time # initLatest
  /\ response = "none"

\* C18: a send called with an empty or blank (white space only) text makes
\* no channel call and sleeps nowhere, and what it returns is False.
C18_BlankMessageRejected ==
  (state = "Direct" /\ msg.kind \in {"", " "}) =>
     /\ outcomes = <<>>
     /\ sleeps = <<>>
     /\ pc \in {"send_enter", "done"}
     /\ pc = "done" => ret = "False"

\* C20: whatever user_id is, a send of a text that is not blank has
\* returned True only when it made a channel call and the last call it made
\* succeeded.
C20_SuccessNeedsChannelCall ==
  (ret = "True" /\ msg.kind \notin {"", " "}) =>
     /\ outcomes # <<>>
     /\ outcomes[Len(outcomes)] = "ok"

\* C19: a Running cycle calls the send at most once: only in the step that
\* fetched the feed, and then for a most recent qualifying event of that
\* feed; a cycle whose fetch gave no feed or whose feed holds no qualifying
\* event calls it not at all; when the send returns False the cycle is over
\* (interval sleep next) and no other event of the feed is tried; every
\* channel call of the cycle is made for the one selected event.
C19_AtMostOneDispatch ==
  [][state = "Running" =>
       /\ (pc' = "send_enter" /\ state' = "Running") =>
            /\ Fetches
            /\ response' = "json"
            /\ outcomes' = <<>>
            /\ msg' = Alert(quake')
            /\ \E i \in QualifyingIn(feed) :
                 /\ quake' = feed[i]
                 /\ \A j \in QualifyingIn(feed) : feed[j].time <= feed[i].time
       /\ (Fetches /\ state' = "Running" /\
           (response' # "json" \/ QualifyingIn(feed) = {})) =>
            /\ pc' = "interval"
            /\ msg' = NoMsg
            /\ outcomes' = <<>>
       /\ (InSend /\ ret' = "False") =>
            /\ pc' = "interval"
            /\ msg' = msg
            /\ quake' = quake
       /\ (pc \in {"send_enter", "send_try", "send_backoff", "msg_delay",
                   "interval"} /\ state' = "Running") =>
            /\ msg' \in {msg, NoMsg}
            /\ pc' # "send_enter" \/ pc = "send_enter"
            /\ outcomes' # outcomes =>
                 (msg = Alert(quake) \/ pc = "interval")
    ]_vars

\* the alert for the newer of two qualifying events failed; the cycle is at
\* its interval sleep and the older event was not tried
C19_Witness ==
  /\ state = "Running"
  /\ pc = "interval"
  /\ ret = "False"
  /\ outcomes = <<"error">>
  /\ data.features = <<Quake(TRUE, 1000, TRUE, 13, 100, TRUE, 52),
                       Quake(TRUE, 2000, TRUE, 13, 100, TRUE, 52)>>
  /\ quake.time = 2000
  /\ msg = Alert(quake)
====
